---- MODULE Spec2Model ----
(***************************************************************************)
(* Report generator backend: the request orchestrator (app.py) and the     *)
(* components it sequences (web_search.py, ai_processor.py,                *)
(* chart_generator.py, report_generator.py, document_processor.py).        *)
(*                                                                         *)
(* Python values are tagged records (Py values); a raised exception is the *)
(* field raised = TRUE of an operator's result.  The external services     *)
(* (search provider, hosted model, plotting and PDF libraries) are inputs  *)
(* drawn from small sets.                                                  *)
(***************************************************************************)
EXTENDS Integers, Sequences, FiniteSets, TLC

VARIABLES
    env,              \* process environment: which credentials are set
    files,            \* the temp directory: name -> "absent" | "upload" | "pdf"
    pc,               \* position of the request handler generate_report
    req,              \* the request being handled (form fields, upload)
    document_text,    \* app.py local: extracted text (its length)
    search_results,   \* app.py local
    report_data,      \* app.py local: result of the synthesizer
    charts,           \* app.py local
    pdf_path,         \* app.py local
    pdf_content,      \* cells of the PDF the current request produced
    ran,              \* stages the current request has executed, in order
    failed,           \* stages of the current request that raised
    fslog,            \* file-system operations of the current request
    resp,             \* response of the last generate-report request
    dl,               \* response of the last download request
    call              \* last direct call of a component method

vars == <<env, files, pc, req, document_text, search_results, report_data,
          charts, pdf_path, pdf_content, ran, failed, fslog, resp, dl, call>>

(***************************************************************************)
(* Bounds of the model                                                     *)
(***************************************************************************)
MaxOrganic == 3      \* organic results in a provider response
MaxItems == 6        \* length of a list in the hosted model's JSON
MaxWeb == 4          \* web results handed to the synthesizer directly
MaxPoints == 7       \* data points handed to the chart generator
MaxCharts == 2       \* chart images handed to the PDF generator
DocChars == 3        \* characters of an extractable document
LongText == 1001     \* characters of a long model summary

(***************************************************************************)
(* Program constants                                                       *)
(***************************************************************************)
SummaryLimit == 1000     \* [:1000]
ItemLimit == 5           \* [:5]
FallbackFindings == 3    \* web_results[:3]
MinPoints == 2           \* len(data_points) < 2
MaxPiePoints == 6        \* len(data_points) <= 6
TitleLimit == 80         \* [:80]

Min(a, b) == IF a < b THEN a ELSE b

(***************************************************************************)
(* Python values                                                           *)
(***************************************************************************)
Item(kind, i) == [kind |-> kind, i |-> i]

PyList(items) ==
    [t |-> "list", items |-> items, s |-> "", of |-> "", args |-> <<>>,
     len |-> Len(items)]
PyStr(s, n) ==
    [t |-> "str", items |-> <<>>, s |-> s, of |-> "", args |-> <<>>, len |-> n]
PyFmt(s, topic, args, n) ==
    [t |-> "str", items |-> <<>>, s |-> s, of |-> topic, args |-> args, len |-> n]
PyInt ==
    [t |-> "int", items |-> <<>>, s |-> "", of |-> "", args |-> <<>>, len |-> 1]

\* bool(v): empty lists and strings are falsy, a non-zero number is truthy
Truthy(v) == IF v.t = "int" THEN TRUE ELSE v.len > 0

\* v[:k]; a number is not subscriptable (TypeError)
Sliceable(v) == v.t \in {"list", "str"}
\* `v[-k:]`: the last k elements instead of the first
Slice_Mut(v, k) ==
    IF v.t = "list"
    THEN PyList(SubSeq(v.items, Len(v.items) - Min(k, Len(v.items)) + 1, Len(v.items)))
    ELSE [v EXCEPT !.len = Min(k, v.len)]

Slice(v, k) ==
    IF v.t = "list" THEN PyList(SubSeq(v.items, 1, Min(k, Len(v.items))))
    ELSE [v EXCEPT !.len = Min(k, v.len)]

\* d.get(key, default) on a dictionary modelled as a function
Get(d, key, default) == IF key \in DOMAIN d THEN d[key] ELSE default

EmptyDict == [k \in {} |-> PyInt]

Topics == {"", "ai"}
TopicLen(topic) == IF topic = "" THEN 0 ELSE 2

(***************************************************************************)
(* web_search.py                                                           *)
(***************************************************************************)
SearchResult(title, source, rank) ==
    [title |-> title, source |-> source, rank |-> rank]

\* what GoogleSearch(params).get_dict() does: raise, or return a dictionary
\* with organic_results (possibly none), an answer_box (possibly none), and
\* possibly an "error" entry (no results then)
ProviderResponses ==
    {[kind |-> "raise", organic |-> 0, answer_box |-> FALSE, error |-> FALSE],
     [kind |-> "dict", organic |-> 0, answer_box |-> FALSE, error |-> TRUE]}
    \cup {[kind |-> "dict", organic |-> n, answer_box |-> b, error |-> FALSE] :
             n \in 0..MaxOrganic, b \in BOOLEAN}

\* the failure path of search_news: an empty list
_get_fallback_results_Mut == <<>>

_get_fallback_results ==
    <<SearchResult("Sample Result 1", "example.com", 0)>>

_parse_results(results) ==
    LET parsed == [i \in 1..results.organic |->
                      SearchResult("organic", "displayed_link", i)]
    IN  IF results.answer_box
        THEN <<SearchResult("Featured Answer", "Featured Snippet", 0)>> \o parsed
        ELSE parsed

\* WebSearchService.search: the result, whether it raised, and whether the
\* provider was called
search(api_key, provider) ==
    IF ~api_key
    THEN [raised |-> FALSE, out |-> _get_fallback_results, provider_called |-> FALSE]
    ELSE IF provider.kind = "raise"
    THEN [raised |-> FALSE, out |-> _get_fallback_results, provider_called |-> TRUE]
    ELSE [raised |-> FALSE, out |-> _parse_results(provider), provider_called |-> TRUE]

(***************************************************************************)
(* chart_generator.py                                                      *)
(***************************************************************************)
\* the rendering engine: whether plotly imports, and whether fig.to_image
\* succeeds for the bar and for the pie figure
Engines == [import_ok : BOOLEAN, bar_ok : BOOLEAN, pie_ok : BOOLEAN]

\* a sequence of n data points; a malformed one lacks 'label' or 'value'
DataPoints(n, malformed) ==
    [i \in 1..n |-> Item(IF malformed /\ i = n THEN "malformed" ELSE "point", i)]

WellFormed(data_points) ==
    \A i \in 1..Len(data_points) : data_points[i].kind = "point"

ChartImage(type, title) == [type |-> type, image |-> "ok", title |-> title]

\* _create_bar_chart / _create_pie_chart: <<chart>> or <<>> for None
_create_bar_chart(data_points, engine) ==
    IF engine.import_ok /\ WellFormed(data_points) /\ engine.bar_ok
    THEN <<ChartImage("bar", "Data Overview")>>
    ELSE <<>>

_create_pie_chart(data_points, engine) ==
    IF engine.import_ok /\ WellFormed(data_points) /\ engine.pie_ok
    THEN <<ChartImage("pie", "Distribution Analysis")>>
    ELSE <<>>

\* a pie chart for one slice more
PieSuitable_Mut(data_points) == Len(data_points) <= MaxPiePoints + 1

PieSuitable(data_points) == Len(data_points) <= MaxPiePoints

\* ChartGenerator.generate_charts: the charts and the renderings attempted
generate_charts(data_points, engine) ==
    IF Len(data_points) < MinPoints
    THEN [raised |-> FALSE, out |-> <<>>, attempted |-> <<>>]
    ELSE IF ~engine.import_ok
    THEN [raised |-> FALSE, out |-> <<>>, attempted |-> <<>>]
    ELSE IF PieSuitable(data_points)
    THEN [raised |-> FALSE,
          out |-> _create_bar_chart(data_points, engine)
                  \o _create_pie_chart(data_points, engine),
          attempted |-> <<"bar", "pie">>]
    ELSE [raised |-> FALSE,
          out |-> _create_bar_chart(data_points, engine),
          attempted |-> <<"bar">>]

(***************************************************************************)
(* ai_processor.py                                                         *)
(***************************************************************************)
\* The hosted model call: requests.post raises (transport error, timeout),
\* a non-200 status, a body response.json() cannot parse, an empty list
\* (result[0] raises), text with no JSON object in it, or text from which
\* _extract_json returns the object `parsed`.
Absent == [t |-> "absent", items |-> <<>>, s |-> "", of |-> "", args |-> <<>>, len |-> 0]

ModelList(n) == PyList([i \in 1..n |-> Item("model", i)])

\* what the model may put under a list key: nothing, a number, a string, a list
ListVals ==
    {Absent, PyInt, PyStr("model text", MaxItems)}
    \cup {ModelList(n) : n \in 0..MaxItems}
SummaryVals == {Absent, PyStr("model summary", DocChars), PyStr("model summary", LongText)}

RequiredKeys == {"executive_summary", "key_findings", "charts", "recommendations"}
OptionalKeys == {"title", "detailed_analysis", "data_points", "citations"}
ExtraKeySets == {{}, OptionalKeys}

ExtraValue(k) ==
    CASE k = "title" -> PyStr("model title", DocChars)
      [] k = "detailed_analysis" -> PyStr("model analysis", DocChars)
      [] k = "data_points" -> PyList(DataPoints(MinPoints + 1, FALSE))
      [] OTHER -> PyList(<<Item("citation", 1)>>)

\* the dictionary json.loads returns: only the keys present are in its domain
MkParsed(es, kf, ch, rc, extra) ==
    LET val == [k \in RequiredKeys |->
                   CASE k = "executive_summary" -> es
                     [] k = "key_findings" -> kf
                     [] k = "charts" -> ch
                     [] OTHER -> rc]
        keys == {k \in RequiredKeys : val[k].t # "absent"} \cup extra
    IN  [k \in keys |-> IF k \in RequiredKeys THEN val[k] ELSE ExtraValue(k)]

Hosted(kind, parsed) == [kind |-> kind, parsed |-> parsed]

FailedCalls ==
    {Hosted(k, EmptyDict) :
        k \in {"transport_error", "non200", "unparseable_body", "empty_list", "no_json"}}

HostedOutcomes ==
    FailedCalls \cup
    {Hosted("parsed", MkParsed(es, kf, ch, rc, extra)) :
        es \in SummaryVals, kf \in ListVals, ch \in ListVals, rc \in ListVals,
        extra \in ExtraKeySets}

\* the outcomes a request of the pipeline draws from: the three lists alike,
\* each absent, a number, empty or of the greatest length
PipelineOutcomes ==
    FailedCalls \cup
    {Hosted("parsed", MkParsed(es, v, v, v, extra)) :
        es \in SummaryVals,
        v \in {Absent, PyInt, ModelList(0), ModelList(MaxItems)},
        extra \in ExtraKeySets}

\* outcome of matplotlib for each batch of two _generate_chart calls
PlotOutcomes == [1..2 -> BOOLEAN]

Digits(n) == IF n < 10 THEN 1 ELSE IF n < 100 THEN 2 ELSE IF n < 1000 THEN 3 ELSE 4

\* the two charts _generate_chart returns for "{topic} Trend 1/2"
TrendCharts == PyList(<<Item("trend", 1), Item("trend", 2)>>)

Returned(schema) == [raised |-> FALSE, schema |-> schema]
Raised == [raised |-> TRUE, schema |-> EmptyDict]

FallbackSummary(topic, doc_text, web_results) ==
    LET doc == doc_text > 0
        web == Len(web_results) > 0
    IN  PyFmt(CASE doc /\ web -> "Analysis of {topic}. Document provided with {} characters. {} web sources analyzed."
                [] doc /\ ~web -> "Analysis of {topic}. Document provided with {} characters."
                [] ~doc /\ web -> "Analysis of {topic} {} web sources analyzed."
                [] OTHER -> "Analysis of {topic}",
              topic,
              (IF doc THEN <<doc_text>> ELSE <<>>)
                  \o (IF web THEN <<Len(web_results)>> ELSE <<>>),
              12 + TopicLen(topic)
                  + (IF doc THEN 25 + Digits(doc_text) + 12 ELSE 0)
                  + (IF web THEN 1 + Digits(Len(web_results)) + 22 ELSE 0))

\* a reference line for every web result, not only for `web_results[:3]`
FallbackFindingsOf_Mut(doc_text, web_results) ==
    (IF doc_text > 0
     THEN <<Item("Document contains information about {topic}", 0)>>
     ELSE <<>>)
    \o [i \in 1..Len(web_results) |->
           Item("Reference: {title}", web_results[i].rank)]

\* the list `findings`: the document line, then a line per web result
FallbackFindingsOf(doc_text, web_results) ==
    (IF doc_text > 0
     THEN <<Item("Document contains information about {topic}", 0)>>
     ELSE <<>>)
    \o [i \in 1..Min(FallbackFindings, Len(web_results)) |->
           Item("Reference: {title}", web_results[i].rank)]

\* AIProcessor._create_fallback_structure; plot_ok: _generate_chart succeeds
_create_fallback_structure(topic, doc_text, web_results, plot_ok) ==
    LET findings == FallbackFindingsOf(doc_text, web_results)
    IN  IF ~plot_ok THEN Raised
        ELSE Returned(
            [k \in RequiredKeys |->
                CASE k = "executive_summary" ->
                         FallbackSummary(topic, doc_text, web_results)
                  [] k = "key_findings" ->
                         IF findings # <<>> THEN PyList(findings)
                         ELSE PyList(<<Item("Processing complete", 0)>>)
                  [] k = "charts" -> TrendCharts
                  [] OTHER -> PyList(<<Item("Review the provided sources", 0),
                                       Item("Consider additional research", 0)>>)])

\* a default that is never substituted
OrDefault_Mut(v, default) == v

\* `parsed.get(key, []) or default`
OrDefault(v, default) == IF Truthy(v) THEN v ELSE default

\* a `validated` that also carries the model's data_points over
Validated_Mut(topic, parsed) ==
    [k \in RequiredKeys \cup (DOMAIN parsed \cap {"data_points"}) |->
        CASE k = "executive_summary" ->
                 Slice(Get(parsed, k, PyFmt("Analysis of {topic}", topic, <<>>,
                                            12 + TopicLen(topic))),
                       SummaryLimit)
          [] k = "key_findings" ->
                 OrDefault(Get(parsed, k, PyList(<<>>)),
                           PyList(<<Item("See executive summary for key findings", 0)>>))
          [] k = "charts" ->
                 OrDefault(Get(parsed, k, PyList(<<>>)), TrendCharts)
          [] k = "recommendations" ->
                 OrDefault(Get(parsed, k, PyList(<<>>)),
                           PyList(<<Item("See executive summary for recommendations", 0)>>))
          [] OTHER -> parsed[k]]

\* the dictionary `validated` before the lists are cut
Validated(topic, parsed) ==
    [k \in RequiredKeys |->
        CASE k = "executive_summary" ->
                 Slice(Get(parsed, k, PyFmt("Analysis of {topic}", topic, <<>>,
                                            12 + TopicLen(topic))),
                       SummaryLimit)
          [] k = "key_findings" ->
                 OrDefault(Get(parsed, k, PyList(<<>>)),
                           PyList(<<Item("See executive summary for key findings", 0)>>))
          [] k = "charts" ->
                 OrDefault(Get(parsed, k, PyList(<<>>)), TrendCharts)
          [] OTHER ->
                 OrDefault(Get(parsed, k, PyList(<<>>)),
                           PyList(<<Item("See executive summary for recommendations", 0)>>))]

ListKeys == {"key_findings", "charts", "recommendations"}

\* the lists left uncut
Limit_Mut(validated) == validated

\* "Limit items for frontend"
Limit(validated) ==
    [k \in DOMAIN validated |->
        IF k \in ListKeys THEN Slice(validated[k], ItemLimit) ELSE validated[k]]

\* AIProcessor.generate_report_structure
generate_report_structure(api_token, topic, doc_text, web_results, hosted, plot) ==
    LET fallback(b) == _create_fallback_structure(topic, doc_text, web_results, plot[b])
        \* the except clause after the try block raised having used n batches
        except(n) == fallback(n + 1)
        \* `return self._create_fallback_structure(...)` inside the try block
        try_fallback == IF plot[1] THEN fallback(1) ELSE except(1)
        parsed == hosted.parsed
        needs_charts == ~Truthy(Get(parsed, "charts", PyList(<<>>)))
        used == IF needs_charts THEN 1 ELSE 0
        validated == Validated(topic, parsed)
    IN  IF ~api_token THEN fallback(1)
        ELSE IF hosted.kind \in {"transport_error", "unparseable_body", "empty_list"}
        THEN except(0)
        ELSE IF hosted.kind \in {"non200", "no_json"} \/ DOMAIN parsed = {}
        THEN try_fallback
        ELSE IF needs_charts /\ ~plot[1] THEN except(1)
        ELSE IF \E k \in ListKeys : ~Sliceable(validated[k]) THEN except(used)
        ELSE Returned(Limit(validated))

(***************************************************************************)
(* report_generator.py                                                     *)
(***************************************************************************)
TempNames == {"tmpa.pdf", "tmpb.pdf"}        \* names tempfile.mktemp can return
UploadNames == TempNames \cup {"doc.pdf"}    \* file.filename is the client's choice
FileNames == UploadNames

TempDir == "/tmp"
Path(dir, name) == [dir |-> dir, name |-> name]
NoPath == Path("", "")
basename(path) == path.name

\* tempfile.mktemp(suffix='.pdf'): a name of the temp directory not in use
mktemp(fs) == {Path(TempDir, n) : n \in {m \in TempNames : fs[m] = "absent"}}

\* a PDF never written to output_path
pdf_output_Mut(fs, path) == fs

\* pdf.output(output_path)
pdf_output(fs, path) == [fs EXCEPT ![path.name] = "pdf"]

Cell(kind, text) == [kind |-> kind, text |-> text]

\* ReportGenerator.safe_text
safe_text(v, default) == IF Truthy(v) THEN v ELSE PyStr(default, 3)

\* one bullet per element (per character of a string)
Bullets(v, default) ==
    IF ~Truthy(v) THEN <<Cell("bullet", default)>>
    ELSE IF v.t = "list"
    THEN [i \in 1..Len(v.items) |-> Cell("bullet", v.items[i].kind)]
    ELSE [i \in 1..v.len |-> Cell("bullet", v.s)]

\* the chart loop: an image is placed, skipped when empty, and an image that
\* fails to decode or to be placed is logged and left out
RECURSIVE PlaceCharts(_)
PlaceCharts(chart_seq) ==
    IF chart_seq = <<>> THEN <<>>
    ELSE (IF Head(chart_seq).image = "ok"
          THEN <<Cell("image", Head(chart_seq).title)>>
          ELSE <<>>)
         \o PlaceCharts(Tail(chart_seq))

\* the section only when an image was placed
ChartsSection_Mut(chart_seq) ==
    IF PlaceCharts(chart_seq) # <<>>
    THEN <<Cell("page", ""), Cell("heading", "4. Data Visualizations")>>
         \o PlaceCharts(chart_seq)
    ELSE <<>>

ChartsSection(chart_seq) ==
    IF chart_seq # <<>>
    THEN <<Cell("page", ""), Cell("heading", "4. Data Visualizations")>>
         \o PlaceCharts(chart_seq)
    ELSE <<>>

ReferencesSection(report) ==
    LET citations == Get(report, "citations", PyList(<<>>))
    IN  IF Truthy(citations)
        THEN <<Cell("heading", "References")>> \o Bullets(citations, "")
        ELSE <<>>

\* the cells generate_pdf lays out, in order
Layout(report, chart_seq) ==
    <<Cell("title", Slice(safe_text(Get(report, "title", PyStr("Report", 6)), "N/A"),
                          TitleLimit).s),
      Cell("heading", "1. Executive Summary"),
      Cell("text", safe_text(Get(report, "executive_summary",
                                  PyStr("No executive summary available.", 31)),
                             "N/A").s),
      Cell("heading", "2. Key Findings")>>
    \o Bullets(Get(report, "key_findings", PyList(<<>>)), "No key findings available.")
    \o <<Cell("heading", "3. Detailed Analysis"),
         Cell("text", safe_text(Get(report, "detailed_analysis",
                                     PyStr("No detailed analysis available.", 31)),
                                "N/A").s)>>
    \o ChartsSection(chart_seq)
    \o <<Cell("page", ""), Cell("heading", "5. Recommendations")>>
    \o Bullets(Get(report, "recommendations", PyList(<<>>)),
               "No recommendations available.")
    \o ReferencesSection(report)

\* ReportGenerator.generate_pdf; layout_ok: the PDF library lays out and
\* encodes the text; output_path: the name mktemp returned
generate_pdf(report, chart_seq, layout_ok, output_path, fs) ==
    IF ~layout_ok
    THEN [raised |-> TRUE, path |-> NoPath, content |-> <<>>, fs |-> fs]
    ELSE [raised |-> FALSE, path |-> output_path,
          content |-> Layout(report, chart_seq),
          fs |-> pdf_output(fs, output_path)]

(***************************************************************************)
(* app.py: POST /api/generate-report and GET /api/download/<filename>      *)
(***************************************************************************)
Stages == <<"EXTRACT_DOCUMENT", "SEARCH_WEB", "SYNTHESIZE_REPORT",
            "RENDER_CHARTS", "ASSEMBLE_PDF">>

NoFile == [present |-> FALSE, filename |-> "", savable |-> FALSE, text |-> 0]
\* an uploaded document: its filename, whether file.save(temp_path) succeeds,
\* and the number of characters pdfplumber extracts from it ('' on failure)
Uploads ==
    {[present |-> TRUE, filename |-> n, savable |-> TRUE, text |-> c] :
        n \in UploadNames, c \in {0, DocChars}}
    \cup {[present |-> TRUE, filename |-> n, savable |-> FALSE, text |-> 0] :
             n \in UploadNames}

Request(topic, file) == [topic |-> topic, file |-> file]
Requests == {Request(t, f) : t \in Topics, f \in {NoFile} \cup Uploads}

Response(status, body) == [status |-> status, body |-> body]
NoResponse == Response(0, EmptyDict)
ErrorBody(msg) == ("success" :> FALSE @@ "error" :> msg)
Url(filename) == [route |-> "/api/download/", filename |-> filename]
SuccessBody(report, chart_seq, path, results) ==
    ("success" :> TRUE @@ "report" :> report @@ "charts_count" :> Len(chart_seq)
     @@ "pdf_url" :> Url(basename(path)) @@ "search_results_count" :> Len(results))

NoDownload == [filename |-> "", status |-> 0]
NoCall == [op |-> "none"]
FsOp(op, name) == [op |-> op, name |-> name]

\* a topic check that lets every request through
TopicMissing_Mut(topic) == FALSE

\* `if not topic`
TopicMissing(topic) == topic = ""

\* file.save(temp_path) and os.remove(temp_path), temp_path being
\* os.path.join(tempfile.gettempdir(), file.filename)
file_save(fs, name) == [fs EXCEPT ![name] = "upload"]
os_remove(fs, name) == [fs EXCEPT ![name] = "absent"]

\* os.path.exists(os.path.join(tempfile.gettempdir(), filename))
path_exists(fs, filename) == filename \in DOMAIN fs /\ fs[filename] # "absent"

\* download_report
download_report(fs, filename) ==
    [filename |-> filename, status |-> IF path_exists(fs, filename) THEN 200 ELSE 404]

\* a synthesizer failure that is not treated as terminal
SynthesisFailed_Mut(r) == FALSE

\* `if not report_data` after the synthesizer returned, or the synthesizer raising
SynthesisFailed(r) == r.raised \/ DOMAIN r.schema = {}

Init ==
    /\ env \in [{"OPENAI_API_KEY", "hugging_face", "SERPAPI_API_KEY"} -> BOOLEAN]
    /\ files = [n \in FileNames |-> "absent"]
    /\ pc = "idle"
    /\ req = Request("", NoFile)
    /\ document_text = 0
    /\ search_results = <<>>
    /\ report_data = EmptyDict
    /\ charts = <<>>
    /\ pdf_path = NoPath
    /\ pdf_content = <<>>
    /\ ran = <<>>
    /\ failed = {}
    /\ fslog = <<>>
    /\ resp = NoResponse
    /\ dl = NoDownload
    /\ call = NoCall

\* generate_report up to the first stage: the topic check
Receive ==
    /\ pc \in {"idle", "responded"}
    /\ \E r \in Requests :
        /\ req' = r
        /\ IF TopicMissing(r.topic)
           THEN /\ pc' = "responded"
                /\ resp' = Response(400, ErrorBody("Topic is required"))
           ELSE /\ pc' = IF r.file.present THEN "EXTRACT_DOCUMENT" ELSE "SEARCH_WEB"
                /\ resp' = NoResponse
    /\ document_text' = 0
    /\ search_results' = <<>>
    /\ report_data' = EmptyDict
    /\ charts' = <<>>
    /\ pdf_path' = NoPath
    /\ pdf_content' = <<>>
    /\ ran' = <<>>
    /\ failed' = {}
    /\ fslog' = <<>>
    /\ dl' = NoDownload
    /\ UNCHANGED <<env, files, call>>

\* Step 1: Process document (if provided)
ExtractDocument ==
    /\ pc = "EXTRACT_DOCUMENT"
    /\ LET name == req.file.filename
       IN  IF req.file.savable
           THEN /\ files' = os_remove(file_save(files, name), name)
                /\ fslog' = fslog \o <<FsOp("save", name), FsOp("remove", name)>>
                /\ document_text' = req.file.text
                /\ failed' = failed
           ELSE /\ document_text' = 0
                /\ failed' = failed \cup {"EXTRACT_DOCUMENT"}
                /\ UNCHANGED <<files, fslog>>
    /\ ran' = Append(ran, "EXTRACT_DOCUMENT")
    /\ pc' = "SEARCH_WEB"
    /\ UNCHANGED <<env, req, search_results, report_data, charts, pdf_path,
                   pdf_content, resp, dl, call>>

\* Step 2: Web search
SearchWeb ==
    /\ pc = "SEARCH_WEB"
    /\ \E provider \in ProviderResponses :
        LET r == search(env["SERPAPI_API_KEY"], provider)
        IN  /\ search_results' = IF r.raised THEN <<>> ELSE r.out
            /\ failed' = IF r.raised THEN failed \cup {"SEARCH_WEB"} ELSE failed
    /\ ran' = Append(ran, "SEARCH_WEB")
    /\ pc' = "SYNTHESIZE_REPORT"
    /\ UNCHANGED <<env, files, req, document_text, report_data, charts, pdf_path,
                   pdf_content, fslog, resp, dl, call>>

\* Step 3: AI processing
SynthesizeReport ==
    /\ pc = "SYNTHESIZE_REPORT"
    /\ \E hosted \in PipelineOutcomes, plot \in PlotOutcomes :
        LET r == generate_report_structure(env["hugging_face"], req.topic,
                     document_text, search_results, hosted, plot)
        IN  IF SynthesisFailed(r)
            THEN /\ failed' = failed \cup {"SYNTHESIZE_REPORT"}
                 /\ resp' = Response(500, ErrorBody("Failed to generate report"))
                 /\ pc' = "responded"
                 /\ UNCHANGED report_data
            ELSE /\ report_data' = r.schema
                 /\ pc' = "RENDER_CHARTS"
                 /\ UNCHANGED <<failed, resp>>
    /\ ran' = Append(ran, "SYNTHESIZE_REPORT")
    /\ UNCHANGED <<env, files, req, document_text, search_results, charts,
                   pdf_path, pdf_content, fslog, dl, call>>

\* Step 4: Generate charts
RenderCharts ==
    /\ pc = "RENDER_CHARTS"
    /\ \E engine \in Engines :
        LET r == generate_charts(Get(report_data, "data_points", PyList(<<>>)).items,
                                 engine)
        IN  /\ charts' = IF r.raised THEN <<>> ELSE r.out
            /\ failed' = IF r.raised THEN failed \cup {"RENDER_CHARTS"} ELSE failed
    /\ ran' = Append(ran, "RENDER_CHARTS")
    /\ pc' = "ASSEMBLE_PDF"
    /\ UNCHANGED <<env, files, req, document_text, search_results, report_data,
                   pdf_path, pdf_content, fslog, resp, dl, call>>

\* Step 5: Generate PDF, and the response
AssemblePdf ==
    /\ pc = "ASSEMBLE_PDF"
    /\ \E layout_ok \in BOOLEAN, output_path \in mktemp(files) :
        LET r == generate_pdf(report_data, charts, layout_ok, output_path, files)
        IN  IF r.raised
            THEN /\ failed' = failed \cup {"ASSEMBLE_PDF"}
                 /\ resp' = Response(500, ErrorBody("Failed to generate PDF"))
                 /\ UNCHANGED <<files, pdf_path, pdf_content, fslog>>
            ELSE /\ files' = r.fs
                 /\ pdf_path' = r.path
                 /\ pdf_content' = r.content
                 /\ fslog' = Append(fslog, FsOp("output", r.path.name))
                 /\ resp' = Response(200, SuccessBody(report_data, charts, r.path,
                                                      search_results))
                 /\ UNCHANGED failed
    /\ ran' = Append(ran, "ASSEMBLE_PDF")
    /\ pc' = "responded"
    /\ UNCHANGED <<env, req, document_text, search_results, report_data, charts,
                   dl, call>>

\* GET /api/download/<filename>, between two generate-report requests
Download ==
    /\ pc \in {"idle", "responded"}
    /\ \E filename \in FileNames : dl' = download_report(files, filename)
    /\ UNCHANGED <<env, files, pc, req, document_text, search_results, report_data,
                   charts, pdf_path, pdf_content, ran, failed, fslog, resp, call>>

Next ==
    \/ Receive
    \/ ExtractDocument
    \/ SearchWeb
    \/ SynthesizeReport
    \/ RenderCharts
    \/ AssemblePdf
    \/ Download

Spec == Init /\ [][Next]_vars

(***************************************************************************)
(* Direct calls of the component methods (as web_search.py's __main__      *)
(* block does): one call from the initial state, with its inputs and its   *)
(* result kept in `call`.                                                  *)
(***************************************************************************)
WebResults(n) == [i \in 1..n |-> SearchResult("organic", "displayed_link", i)]

\* report schemas handed to generate_pdf
PdfSchemas ==
    {MkParsed(es, kf, PyList(<<>>), rc, {}) @@ extra :
        es \in {PyStr("summary", DocChars), PyStr("", 0)},
        kf \in {ModelList(0), ModelList(2)},
        rc \in {ModelList(0), ModelList(2)},
        extra \in {EmptyDict,
                   ("citations" :> PyList(<<>>)),
                   ("citations" :> PyList(<<Item("citation", 1)>>)),
                   ("citations" :> PyList(<<Item("citation", 1)>>)
                        @@ "title" :> PyStr("model title", DocChars)
                        @@ "detailed_analysis" :> PyStr("model analysis", DocChars))}}

\* chart images handed to generate_pdf: decodable, empty, or failing to
\* decode or to be placed
ChartInputs ==
    UNION {[1..n -> {[type |-> "bar", image |-> i, title |-> "Data Overview"] :
                        i \in {"ok", "empty", "bad"}}] : n \in 0..MaxCharts}

CallSearch ==
    /\ call.op = "none"
    /\ \E provider \in ProviderResponses :
        call' = [op |-> "search", api_key |-> env["SERPAPI_API_KEY"],
                 provider |-> provider,
                 result |-> search(env["SERPAPI_API_KEY"], provider)]
    /\ UNCHANGED <<env, files, pc, req, document_text, search_results, report_data,
                   charts, pdf_path, pdf_content, ran, failed, fslog, resp, dl>>

CallCharts ==
    /\ call.op = "none"
    /\ \E n \in 0..MaxPoints, malformed \in BOOLEAN, engine \in Engines :
        call' = [op |-> "generate_charts", data_points |-> DataPoints(n, malformed),
                 engine |-> engine,
                 result |-> generate_charts(DataPoints(n, malformed), engine)]
    /\ UNCHANGED <<env, files, pc, req, document_text, search_results, report_data,
                   charts, pdf_path, pdf_content, ran, failed, fslog, resp, dl>>

CallPdf ==
    /\ call.op = "none"
    /\ \E report \in PdfSchemas, chart_seq \in ChartInputs, layout_ok \in BOOLEAN,
          output_path \in mktemp(files) :
        LET r == generate_pdf(report, chart_seq, layout_ok, output_path, files)
        IN  /\ call' = [op |-> "generate_pdf", report |-> report,
                        chart_seq |-> chart_seq, layout_ok |-> layout_ok,
                        result |-> [raised |-> r.raised, path |-> r.path,
                                    content |-> r.content]]
            /\ files' = r.fs
    /\ UNCHANGED <<env, pc, req, document_text, search_results, report_data,
                   charts, pdf_path, pdf_content, ran, failed, fslog, resp, dl>>

CallSynth ==
    /\ call.op = "none"
    /\ \E topic \in Topics, doc_text \in {0, DocChars}, n \in 0..MaxWeb,
          hosted \in HostedOutcomes, plot \in PlotOutcomes :
        call' = [op |-> "generate_report_structure",
                 api_token |-> env["hugging_face"], topic |-> topic,
                 doc_text |-> doc_text, web_results |-> WebResults(n),
                 hosted |-> IF env["hugging_face"] THEN hosted
                            ELSE Hosted("not_called", EmptyDict),
                 plot |-> plot,
                 result |-> generate_report_structure(env["hugging_face"], topic,
                               doc_text, WebResults(n), hosted, plot)]
    /\ UNCHANGED <<env, files, pc, req, document_text, search_results, report_data,
                   charts, pdf_path, pdf_content, ran, failed, fslog, resp, dl>>

\* the two marks of the "services" entry of GET /api/health
Present == "present"

Missing == "missing"

\* health_check: the JSON body, from the environment of the process
health_check(environ) ==
    [status |-> "healthy",
     services |-> [openai |-> IF environ["OPENAI_API_KEY"] THEN Present ELSE Missing,
                   serpapi |-> IF environ["SERPAPI_API_KEY"] THEN Present ELSE Missing]]

\* GET /api/health
HealthCheck ==
    /\ call.op = "none"
    /\ call' = [op |-> "health_check", result |-> Response(200, health_check(env))]
    /\ UNCHANGED <<env, files, pc, req, document_text, search_results, report_data,
                   charts, pdf_path, pdf_content, ran, failed, fslog, resp, dl>>

UnitNext ==
    \/ CallSearch
    \/ CallCharts
    \/ CallPdf
    \/ HealthCheck

UnitSpec == Init /\ [][UnitNext]_vars

SynthInit == Init /\ ~env["OPENAI_API_KEY"] /\ ~env["SERPAPI_API_KEY"]

SynthSpec == SynthInit /\ [][CallSynth]_vars

(***************************************************************************)
(* Properties                                                              *)
(***************************************************************************)
IsPrefix(a, b) == Len(a) <= Len(b) /\ a = SubSeq(b, 1, Len(a))

\* C1: a generate-report request ends either in a 200 response with
\* success=true, a report with the four required fields and a pdf_url whose
\* file the download route finds (before any other request), or in an error
\* response with success=false and neither report nor pdf_url.
C1_CompleteOrError ==
    pc = "responded" =>
        \/ /\ resp.status = 200
           /\ resp.body["success"] = TRUE
           /\ {"report", "pdf_url"} \subseteq DOMAIN resp.body
           /\ RequiredKeys \subseteq DOMAIN resp.body["report"]
           /\ download_report(files, resp.body["pdf_url"].filename).status = 200
           /\ (dl.filename = resp.body["pdf_url"].filename => dl.status = 200)
        \/ /\ resp.status \in {400, 500}
           /\ resp.body["success"] = FALSE
           /\ DOMAIN resp.body \cap {"report", "pdf_url"} = {}

C1_Witness ==
    /\ pc = "responded"
    /\ resp.status = 200
    /\ req.file.present
    /\ dl.filename = resp.body["pdf_url"].filename
    /\ dl.status = 200

\* the stages a request with a topic runs, given an upload and the outcome of
\* the synthesis
StagesOf(uploaded, synthesized) ==
    (IF uploaded THEN <<"EXTRACT_DOCUMENT">> ELSE <<>>)
    \o <<"SEARCH_WEB", "SYNTHESIZE_REPORT">>
    \o (IF synthesized THEN <<"RENDER_CHARTS", "ASSEMBLE_PDF">> ELSE <<>>)

\* C2: with a non-empty topic the stages run at most once each, in the fixed
\* order, EXTRACT_DOCUMENT only for an upload; the response is 200 exactly when
\* the synthesis returned a non-empty schema and the assembly returned a path;
\* a failure of EXTRACT_DOCUMENT, SEARCH_WEB or RENDER_CHARTS substitutes
\* '' / [] / [] and the pipeline goes on; a failure of SYNTHESIZE_REPORT or
\* ASSEMBLE_PDF yields a 500 and no later stage runs.
C2_StageOrder ==
    req.topic # "" /\ pc # "idle" =>
        /\ IsPrefix(ran, StagesOf(req.file.present, TRUE))
        /\ "EXTRACT_DOCUMENT" \in failed => document_text = 0
        /\ "SEARCH_WEB" \in failed => search_results = <<>>
        /\ "RENDER_CHARTS" \in failed => charts = <<>>
        /\ pc = "responded" =>
            /\ resp.status \in {200, 500}
            /\ resp.status = 200 <=> (DOMAIN report_data # {} /\ pdf_path # NoPath)
            /\ resp.status = 200 <=> failed \cap {"SYNTHESIZE_REPORT", "ASSEMBLE_PDF"} = {}
            /\ ran = StagesOf(req.file.present, "SYNTHESIZE_REPORT" \notin failed)

C2_Witness ==
    /\ pc = "responded"
    /\ req.topic # ""
    /\ failed = {"EXTRACT_DOCUMENT"}
    /\ resp.status = 200
    /\ ran = StagesOf(TRUE, TRUE)

\* C3: a request without a topic gets a 400 with success=false, and nothing has
\* run before it: no upload saved, no search, no synthesis, no artifact, even
\* with a document attached.
C3_MissingTopic ==
    req.topic = "" =>
        /\ pc \in {"idle", "responded"}
        /\ pc = "responded" =>
            /\ resp.status = 400
            /\ resp.body["success"] = FALSE
            /\ ran = <<>>
            /\ fslog = <<>>
            /\ search_results = <<>>
            /\ DOMAIN report_data = {}
            /\ pdf_path = NoPath

C3_Witness ==
    /\ pc = "responded"
    /\ req.topic = ""
    /\ req.file.present
    /\ resp.status = 400
    /\ \E n \in FileNames : files[n] = "pdf"

SynthCalled == call.op = "generate_report_structure"
SynthReturned == SynthCalled /\ ~call.result.raised

\* C4: generate_report_structure never raises: whatever the credential, the
\* hosted model's outcome and the outcome of the placeholder chart generation,
\* it returns a schema with the four required fields.
C4_NeverRaises ==
    SynthCalled =>
        /\ ~call.result.raised
        /\ RequiredKeys \subseteq DOMAIN call.result.schema

\* C5 as stated: in every schema the synthesizer returns, each optional field
\* (title, detailed_analysis, data_points, charts, citations) is present and
\* non-empty.
C5_FullyPopulated ==
    SynthReturned =>
        \A k \in OptionalKeys \cup {"charts"} :
            k \in DOMAIN call.result.schema /\ Truthy(call.result.schema[k])

\* C5 amended: every schema the synthesizer returns has exactly the four
\* fields executive_summary, key_findings, charts, recommendations; the three
\* lists are never empty; title, detailed_analysis, data_points and citations
\* are never part of it.
C5_FourFields ==
    SynthReturned =>
        /\ DOMAIN call.result.schema = RequiredKeys
        /\ \A k \in ListKeys : Truthy(call.result.schema[k])

C5_Witness ==
    /\ SynthReturned
    /\ call.hosted.kind = "parsed"
    /\ OptionalKeys \subseteq DOMAIN call.hosted.parsed
    /\ "key_findings" \in DOMAIN call.hosted.parsed
    /\ call.hosted.parsed["key_findings"].len = 0
    /\ "charts" \notin DOMAIN call.hosted.parsed
    /\ call.result.schema["executive_summary"].s = "model summary"
    /\ call.result.schema["charts"] = TrendCharts

\* C6: in every schema the synthesizer returns, key_findings, charts and
\* recommendations hold at most 5 elements each.
C6_AtMostFive ==
    SynthReturned =>
        \A k \in ListKeys :
            /\ call.result.schema[k].t \in {"list", "str"}
            /\ Len(call.result.schema[k].items) <= 5
            /\ call.result.schema[k].len <= 5

C6_Witness ==
    /\ SynthReturned
    /\ call.hosted.kind = "parsed"
    /\ \A k \in ListKeys :
        /\ k \in DOMAIN call.hosted.parsed
        /\ call.hosted.parsed[k].len > 5
        /\ Len(call.result.schema[k].items) = 5

\* C7: search returns a non-empty sequence for every credential state and
\* provider response.
C7_NonEmpty ==
    call.op = "search" => Len(call.result.out) >= 1

\* C8: without a credential, or when the provider call raises, search does not
\* raise and returns exactly the one fallback record with source
\* "example.com"; without a credential the provider is not called.
C8_Fallback ==
    call.op = "search" /\ (~call.api_key \/ call.provider.kind = "raise") =>
        /\ ~call.result.raised
        /\ Len(call.result.out) = 1
        /\ call.result.out[1].source = "example.com"
        /\ call.result.out[1].title = "Sample Result 1"
        /\ ~call.api_key => ~call.result.provider_called

C8_Witness ==
    /\ call.op = "search"
    /\ call.api_key
    /\ call.provider.kind = "raise"
    /\ call.result.provider_called
    /\ call.result.out[1].source = "example.com"

HasChart(out, title) == \E i \in 1..Len(out) : out[i].title = title

\* C9: generate_charts returns a bar chart exactly when n >= 2 and the bar
\* rendering succeeded, a pie chart exactly when 2 <= n <= 6 and the pie
\* rendering succeeded, the bar before the pie; a failed bar does not keep the
\* pie from being attempted; for n < 2 nothing is attempted.
C9_Charts ==
    call.op = "generate_charts" =>
        LET n == Len(call.data_points)
            e == call.engine
            out == call.result.out
            rendered(ok) == e.import_ok /\ WellFormed(call.data_points) /\ ok
        IN  /\ ~call.result.raised
            /\ HasChart(out, "Data Overview") <=> (n >= 2 /\ rendered(e.bar_ok))
            /\ HasChart(out, "Distribution Analysis")
                   <=> (n >= 2 /\ n <= 6 /\ rendered(e.pie_ok))
            /\ Len(out) <= 2
            /\ Len(out) = 2 => out[1].type = "bar" /\ out[2].type = "pie"
            /\ n < 2 => out = <<>> /\ call.result.attempted = <<>>
            /\ n >= 2 /\ n <= 6 /\ e.import_ok
                   => call.result.attempted = <<"bar", "pie">>
            /\ n > 6 /\ e.import_ok => call.result.attempted = <<"bar">>

C9_Witness ==
    /\ call.op = "generate_charts"
    /\ Len(call.data_points) = 6
    /\ ~call.engine.bar_ok
    /\ Len(call.result.out) = 1
    /\ call.result.out[1].type = "pie"

HeadingsOf(content) ==
    LET hs == SelectSeq(content, LAMBDA c : c.kind = "heading")
    IN  [i \in 1..Len(hs) |-> hs[i].text]

\* C10: the PDF's headings are, in this order, "1. Executive Summary",
\* "2. Key Findings", "3. Detailed Analysis", "4. Data Visualizations" exactly
\* when the chart sequence is non-empty, "5. Recommendations", and "References"
\* exactly when citations is non-empty; an image that fails to decode or to be
\* placed is skipped and the PDF is still written.
C10_Sections ==
    call.op = "generate_pdf" =>
        /\ call.result.raised <=> ~call.layout_ok
        /\ ~call.result.raised =>
            /\ HeadingsOf(call.result.content) =
                   <<"1. Executive Summary", "2. Key Findings", "3. Detailed Analysis">>
                   \o (IF Len(call.chart_seq) > 0
                       THEN <<"4. Data Visualizations">> ELSE <<>>)
                   \o <<"5. Recommendations">>
                   \o (IF "citations" \in DOMAIN call.report
                          /\ Len(call.report["citations"].items) > 0
                       THEN <<"References">> ELSE <<>>)
            /\ files[call.result.path.name] = "pdf"

C10_Witness ==
    /\ call.op = "generate_pdf"
    /\ ~call.result.raised
    /\ Len(call.chart_seq) = 2
    /\ \A i \in 1..2 : call.chart_seq[i].image = "bad"
    /\ Len(HeadingsOf(call.result.content)) = 6

\* ------------------------------------------------------------------------
\* C11: no two requests share a file. The staging path a request writes its
\* upload to and the artifact path it writes its PDF to are its own, so a PDF
\* that some request has written is never overwritten or deleted by a step of
\* another request: a name that holds an artifact keeps holding it.
C11_NoSharedFile ==
    [][\A n \in FileNames : files[n] = "pdf" => files'[n] = "pdf"]_vars

\* ------------------------------------------------------------------------
\* C12: GET /api/health reports each required credential truthfully. The
\* model-provider entry shows the present mark exactly when the Synthesizer
\* has its model credential (the variable AIProcessor reads, with which
\* generate_report_structure attempts the hosted call), and the
\* search-provider entry shows it exactly when search calls the provider
\* instead of returning the fallback.
C12_HealthTruthful ==
    call.op = "health_check" =>
        LET services == call.result.body.services
        IN  /\ services.openai = Present <=> env["hugging_face"]
            /\ \A p \in ProviderResponses :
                   services.serpapi = Present
                       <=> search(env["SERPAPI_API_KEY"], p).provider_called

\* the search-provider half of C12 on its own
C12_SearchEntryTruthful ==
    call.op = "health_check" =>
        \A p \in ProviderResponses :
            call.result.body.services.serpapi = Present
                <=> search(env["SERPAPI_API_KEY"], p).provider_called

\* ------------------------------------------------------------------------
\* the call returned the structure built by _create_fallback_structure: the
\* credential is missing, or the hosted call gave no JSON object
FallbackBuilt ==
    /\ SynthReturned
    /\ ~call.api_token \/ call.hosted.kind # "parsed"

\* C13: for every topic, the fallback built with an empty document text and
\* no web results has key_findings equal to exactly the one sentinel element
\* and two charts; built with a non-empty document and k web results, its
\* key_findings has 1 + min(k, 3) elements: the document line first, then one
\* reference line per result, in the order of the results.
C13_FallbackFindings ==
    FallbackBuilt =>
        LET findings == call.result.schema["key_findings"]
            k == Len(call.web_results)
        IN  /\ (call.doc_text = 0 /\ k = 0) =>
                /\ findings = PyList(<<Item("Processing complete", 0)>>)
                /\ call.result.schema["charts"].t = "list"
                /\ Len(call.result.schema["charts"].items) = 2
            /\ call.doc_text > 0 =>
                /\ findings.t = "list"
                /\ Len(findings.items) = 1 + Min(k, FallbackFindings)
                /\ findings.items[1] =
                       Item("Document contains information about {topic}", 0)
                /\ \A i \in 1..Min(k, FallbackFindings) :
                       findings.items[i + 1] =
                           Item("Reference: {title}", call.web_results[i].rank)

\* a fallback after a failed hosted call, built from a document and more
\* web results than it refers to
C13_Witness ==
    /\ FallbackBuilt
    /\ call.api_token
    /\ call.doc_text > 0
    /\ Len(call.web_results) > FallbackFindings
    /\ Len(call.result.schema["key_findings"].items) = 1 + FallbackFindings

\* ------------------------------------------------------------------------
\* the model-output path: the hosted call was made and a non-empty JSON
\* object was extracted from its output
ModelOutput ==
    /\ SynthReturned
    /\ call.api_token
    /\ call.hosted.kind = "parsed"
    /\ DOMAIN call.hosted.parsed # {}

\* the value the model gave under a key, the empty list when it gave none
Given(key) == Get(call.hosted.parsed, key, PyList(<<>>))

\* v[:5] written out: the first five elements, in the order they had
FirstFive(v) ==
    IF v.t = "list"
    THEN PyList([i \in 1..Min(ItemLimit, Len(v.items)) |-> v.items[i]])
    ELSE [v EXCEPT !.len = Min(ItemLimit, v.len)]

\* the summary of the returned schema: a string of at most 1000 characters,
\* the topic-based sentence when the model gave none
SummaryCoerced ==
    LET summary == call.result.schema["executive_summary"]
    IN  /\ summary.t = "str"
        /\ summary.len <= SummaryLimit
        /\ "executive_summary" \notin DOMAIN call.hosted.parsed =>
               /\ summary.s = "Analysis of {topic}"
               /\ summary.of = call.topic

Validates ==
    /\ \A k \in ListKeys : Truthy(Given(k)) => Sliceable(Given(k))
    /\ Truthy(Given("charts")) \/ call.plot[1]

C15_NoCharts ==
    (pc = "responded" /\ resp.status = 200) =>
        /\ resp.body["charts_count"] = 0
        /\ \A i \in 1..Len(HeadingsOf(pdf_content)) :
               HeadingsOf(pdf_content)[i] # "4. Data Visualizations"
        /\ "data_points" \notin DOMAIN resp.body["report"]
        /\ resp.body["report"]["charts"].len >= 1
        /\ resp.body["charts_count"] # resp.body["report"]["charts"].len

\* a success response whose report carries five charts of the model's output
\* and whose chart stage did not fail
C15_Witness ==
    /\ pc = "responded"
    /\ resp.status = 200
    /\ resp.body["report"]["charts"] = ModelList(ItemLimit)
    /\ resp.body["charts_count"] = 0
    /\ "RENDER_CHARTS" \notin failed

====
